---------------------------- MODULE Spec2Model ----------------------------
(***************************************************************************)
(* A model of src/src/config.py: the layered settings loader               *)
(* (Settings / get_settings), the secret classifier, the sample            *)
(* synthesizer, the hierarchical template generator, the flat (.env)       *)
(* projector and the aligned template renderer; and the output folder a    *)
(* ProgramConfig instance resolves once (output_folder, dir_tree).         *)
(*                                                                         *)
(* Text is a sequence of one-character strings, so that upper-casing,      *)
(* concatenation, suffix tests and padding are computed character by       *)
(* character, as Python computes them.                                     *)
(***************************************************************************)
EXTENDS Integers, Sequences, FiniteSets, TLC

VARIABLES
    pc,          \* position of the running entry point
    tp,          \* a type annotation handed to the classifier / synthesizer
    secretFlag,  \* result of _is_secret_field, or Unset
    sample,      \* result of _sample_value_for_type, or Unset
    schema,      \* the model class handed to the generators
    yamlDocs,    \* _generate_yaml_for_model(schema, for_docs=True), or Unset
    yamlReal,    \* _generate_yaml_for_model(schema, for_docs=False), or Unset
    envDict,     \* _generate_env_for_model(schema), or Unset
    doc,         \* a template document handed to the renderer
    rendered,    \* outcome of _dump_yaml_with_comment_alignment, or Unset
    yamlFile,    \* parsed content of config.yaml (top-level mapping)
    envVars,     \* the variables of the environment (flat mapping)
    out,         \* what has been printed to standard output, in order
    outcome,     \* how get_settings ended, or Unset
    envFile,     \* the entries of the .env file (flat mapping)
    output_folder_choice,     \* ProgramConfig.output_folder_choice
    _resolved_output_folder,  \* ProgramConfig._resolved_output_folder
    now,         \* what datetime.datetime.now() returns
    accesses,    \* what the accesses of output_folder returned, in order
    tree         \* what the last access of dir_tree returned, or Unset

\* the .env file
loadVars == <<envFile>>
\* one ProgramConfig instance and the clock
folderVars == <<output_folder_choice, _resolved_output_folder, now, accesses, tree>>

vars == <<pc, tp, secretFlag, sample, schema, yamlDocs, yamlReal, envDict,
          doc, rendered, yamlFile, envVars, out, outcome, loadVars, folderVars>>

Unset == [k |-> "unset"]

\* no ProgramConfig instance is in use
NoFolder ==
    /\ output_folder_choice = Unset /\ _resolved_output_folder = Unset
    /\ now = Unset /\ accesses = Unset /\ tree = Unset


-----------------------------------------------------------------------------
(* Text                                                                    *)

LowerLetters == <<"a","b","c","d","e","f","g","h","i","j","k","l","m",
                  "n","o","p","q","r","s","t","u","v","w","x","y","z">>
UpperLetters == <<"A","B","C","D","E","F","G","H","I","J","K","L","M",
                  "N","O","P","Q","R","S","T","U","V","W","X","Y","Z">>

\* str.upper() on one character
UpperChar(c) ==
    IF \E i \in DOMAIN LowerLetters : LowerLetters[i] = c
    THEN UpperLetters[CHOOSE i \in DOMAIN LowerLetters : LowerLetters[i] = c]
    ELSE c

\* str.upper()
Upper(t) == [i \in 1..Len(t) |-> UpperChar(t[i])]

\* str.endswith(suffix)
EndsWith(t, suffix) ==
    /\ Len(t) >= Len(suffix)
    /\ SubSeq(t, Len(t) - Len(suffix) + 1, Len(t)) = suffix

\* " " * n
Spaces(n) == [i \in 1..n |-> " "]

\* str.ljust(width)
Ljust(t, width) == IF Len(t) >= width THEN t ELSE t \o Spaces(width - Len(t))

Digits == <<"0","1","2","3","4","5","6","7","8","9">>

RECURSIVE IntStr(_)
\* str(n) for a non-negative int
IntStr(n) == IF n < 10 THEN <<Digits[n + 1]>>
             ELSE IntStr(n \div 10) \o <<Digits[(n % 10) + 1]>>

RECURSIVE JoinText(_, _)
\* sep.join(parts)
JoinText(parts, sep) ==
    IF Len(parts) = 0 THEN <<>>
    ELSE IF Len(parts) = 1 THEN parts[1]
    ELSE parts[1] \o sep \o JoinText(Tail(parts), sep)

Max(a, b) == IF a >= b THEN a ELSE b

RECURSIVE MaxOf(_)
\* max() over a non-empty sequence of ints
MaxOf(ns) == IF Len(ns) = 1 THEN ns[1] ELSE Max(ns[1], MaxOf(Tail(ns)))

-----------------------------------------------------------------------------
(* Python values                                                           *)

VStr(t)      == [k |-> "str", s |-> t]
VInt(n)      == [k |-> "int", n |-> n]
VFloat       == [k |-> "float"]
VBool(b)     == [k |-> "bool", b |-> b]
VNone        == [k |-> "none"]
VSecret      == [k |-> "secretstr"]
VList(items) == [k |-> "list", items |-> items]
\* a dict: insertion-ordered entries with pairwise different keys
VDict(es)    == [k |-> "dict", entries |-> es]
VTuple(v, c) == [k |-> "tuple", value |-> v, comment |-> c]
\* an instance of a model class: its class name and its attributes in order
VInst(n, as) == [k |-> "inst", cls |-> n, attrs |-> as]
Entry(key, val) == [key |-> key, val |-> val]

EmptyDict == VDict(<<>>)

DictKeys(d) == [i \in 1..Len(d.entries) |-> d.entries[i].key]
HasKey(d, key) == \E i \in 1..Len(d.entries) : d.entries[i].key = key
DictGet(d, key) ==
    d.entries[CHOOSE i \in 1..Len(d.entries) : d.entries[i].key = key].val

\* d[key] = val : a present key keeps its place and takes the new value
DictSet(d, key, val) ==
    IF HasKey(d, key)
    THEN VDict([i \in 1..Len(d.entries) |->
                   IF d.entries[i].key = key THEN Entry(key, val)
                   ELSE d.entries[i]])
    ELSE VDict(Append(d.entries, Entry(key, val)))

RECURSIVE DictMerge(_, _)
\* d |= other
DictMerge(d, other) ==
    IF Len(other.entries) = 0 THEN d
    ELSE DictMerge(DictSet(d, other.entries[1].key, other.entries[1].val),
                   VDict(Tail(other.entries)))

\* bool(x) as used by "if comment:"
Truthy(v) == v.k = "str" /\ Len(v.s) > 0

RECURSIVE PyStr(_), PyRepr(_), ReprItems(_), ReprEntries(_), ReprAttrs(_)
\* repr() of the items of a list
ReprItems(items) == [i \in 1..Len(items) |-> PyRepr(items[i])]
\* "key: value" for every entry of a dict
ReprEntries(es) ==
    [i \in 1..Len(es) |-> <<"'">> \o es[i].key \o <<"'", ":", " ">> \o PyRepr(es[i].val)]
\* "name=value" for every attribute of a model instance
ReprAttrs(as) == [i \in 1..Len(as) |-> as[i].key \o <<"=">> \o PyRepr(as[i].val)]
\* repr(value)
PyRepr(v) ==
    CASE v.k = "str"       -> <<"'">> \o v.s \o <<"'">>
      [] v.k = "secretstr" -> <<"S","e","c","r","e","t","S","t","r","(","'",
                                "*","*","*","*","*","*","*","*","*","*","'",")">>
      [] v.k = "inst"      -> v.cls \o <<"(">> \o JoinText(ReprAttrs(v.attrs), <<",", " ">>) \o <<")">>
      [] OTHER             -> PyStr(v)
\* str(value)
PyStr(v) ==
    CASE v.k = "str"       -> v.s
      [] v.k = "int"       -> IntStr(v.n)
      [] v.k = "float"     -> <<"0", ".", "0">>
      [] v.k = "bool"      -> IF v.b THEN <<"T","r","u","e">> ELSE <<"F","a","l","s","e">>
      [] v.k = "none"      -> <<"N","o","n","e">>
      [] v.k = "secretstr" -> <<"*","*","*","*","*","*","*","*","*","*">>
      [] v.k = "list"      -> <<"[">> \o JoinText(ReprItems(v.items), <<",", " ">>) \o <<"]">>
      [] v.k = "dict"      -> <<"{">> \o JoinText(ReprEntries(v.entries), <<",", " ">>) \o <<"}">>
      [] v.k = "tuple"     -> <<"(">> \o PyRepr(v.value) \o <<",", " ">> \o PyRepr(v.comment) \o <<")">>
      [] v.k = "inst"      -> JoinText(ReprAttrs(v.attrs), <<" ">>)

-----------------------------------------------------------------------------
(* Type annotations and model classes                                      *)

TStr      == [k |-> "str"]
TInt      == [k |-> "int"]
TFloat    == [k |-> "float"]
TBool     == [k |-> "bool"]
TNone     == [k |-> "NoneType"]
TSecret   == [k |-> "SecretStr"]
\* typing.Union[...] / typing.Optional[...]
TUnion(as)    == [k |-> "Union", args |-> as]
TOptional(t)  == TUnion(<<t, TNone>>)
\* typing.Dict[K, V]; the bare Dict has no args
TDict(as)     == [k |-> "Dict", args |-> as]
\* typing.List[T]; the bare List has no args
TList(as)     == [k |-> "List", args |-> as]
\* typing.Literal[...]: its args are values, not types
TLiteral      == [k |-> "Literal"]
\* an Enum class with its members' values in declaration order
TEnum(ms)     == [k |-> "Enum", members |-> ms]
\* a BaseModel subclass: its name and its model_fields, in declaration order
TModel(n, fs) == [k |-> "BaseModel", name |-> n, fields |-> fs]

\* PydanticUndefined
Undefined == [k |-> "PydanticUndefined"]

\* a FieldInfo under its name in model_fields
Field(name, annotation, default, description) ==
    [name |-> name, annotation |-> annotation, default |-> default,
     description |-> description]

\* hasattr(typ, "__origin__"): the parameterised and special aliases of typing
HasOrigin(t) == t.k \in {"Union", "Dict", "List", "Literal"}

\* getattr(typ, "__args__", ()), the type arguments only
TypeArgs(t) == IF t.k \in {"Union", "Dict", "List"} THEN t.args ELSE <<>>

\* isinstance(tp, type) and issubclass(tp, BaseModel)
IsModelClass(t) == t.k = "BaseModel"

-----------------------------------------------------------------------------
(* Classifier and sample synthesizer                                       *)
(* Annotations are the typing forms config.py imports (Optional, Union,    *)
(* Dict, List, Literal), classes, and Enum / BaseModel subclasses.         *)
(* pydantic strips Annotated[...] from FieldInfo.annotation, so the        *)
(* Annotated branch of the synthesizer is never entered from a field.      *)

\* a field is secret when its annotation is SecretStr, or carries __origin__
\* and lists SecretStr among its __args__
_is_secret_field(field) ==
    LET typ  == field.annotation
        args == TypeArgs(typ)
    IN IF typ = TSecret THEN TRUE
       ELSE IF HasOrigin(typ) THEN \E i \in 1..Len(args) : args[i] = TSecret
       ELSE FALSE

\* [a for a in args if a is not type(None)]
NonNone(as) == SelectSeq(as, LAMBDA a : a # TNone)

\* a variant that returns a one-entry literal
OneEntryLiteral == <<"{", "\"", "s", "t", "r", "\"", ":", " ", "\"", "s", "t", "r", "\"", "}">>

\* the literal returned for Dict[str, str]
StrStrLiteral == <<"{", "\"", "s", "t", "r", "\"", ":", " ", "\"", "s", "t", "r", "\"", ",", " ",
                   "\"", "s", "t", "r", "\"", ":", " ", "\"", "s", "t", "r", "\"", "}">>

\* f"<{type_name}>"
Placeholder(name) == <<"<">> \o name \o <<">">>

\* getattr(tp, "__name__", str(tp)) of the annotations that reach the fallback
TypeName(t) ==
    CASE t.k = "SecretStr" -> <<"S","e","c","r","e","t","S","t","r">>
      [] t.k = "NoneType"  -> <<"N","o","n","e","T","y","p","e">>
      [] t.k = "Literal"   -> <<"L","i","t","e","r","a","l">>

\* key_type, val_type = args or (str, str)
DictArgs(t) == IF Len(t.args) = 0 THEN <<TStr, TStr>> ELSE t.args

\* item_type = args[0] if args else str
ListItem(t) == IF Len(t.args) = 0 THEN TStr ELSE t.args[1]

RECURSIVE _sample_value_for_type(_), _generate_yaml_for_model(_, _), YamlLoop(_, _, _, _)

_sample_value_for_type(t) ==
    CASE t.k = "Union" ->
            IF Len(NonNone(t.args)) > 0
            THEN _sample_value_for_type(NonNone(t.args)[1])
            ELSE VNone
      [] t.k = "Dict" ->
            IF DictArgs(t)[1] = TStr /\ DictArgs(t)[2] = TStr
            THEN VStr(StrStrLiteral)
            ELSE VDict(<<Entry(PyStr(_sample_value_for_type(DictArgs(t)[1])),
                               _sample_value_for_type(DictArgs(t)[2]))>>)
      [] t.k = "List"  -> VList(<<_sample_value_for_type(ListItem(t))>>)
      [] t.k = "str"   -> VStr(Placeholder(<<"s","t","r">>))
      [] t.k = "int"   -> VInt(0)
      [] t.k = "float" -> VFloat
      [] t.k = "bool"  -> VBool(FALSE)
      [] t.k = "Enum"  ->
            IF Len(t.members) > 0 THEN t.members[1]
            ELSE VStr(Placeholder(<<"e","n","u","m">>))
      [] t.k = "BaseModel" -> _generate_yaml_for_model(t, TRUE)
      [] OTHER -> VStr(Placeholder(TypeName(t)))

\* value = field.default if it is set, else a sample of the annotation
FieldValue(field) ==
    IF field.default # Undefined THEN field.default
    ELSE _sample_value_for_type(field.annotation)

\* result[name] = (value, comment) if for_docs else value
YamlEntry(field, for_docs) ==
    IF for_docs THEN VTuple(FieldValue(field), field.description)
    ELSE FieldValue(field)

\* the loop over model.model_fields.items(), from field i on
YamlLoop(fields, for_docs, i, result) ==
    IF i > Len(fields) THEN result
    ELSE IF _is_secret_field(fields[i])
         THEN YamlLoop(fields, for_docs, i + 1, result)
         ELSE YamlLoop(fields, for_docs, i + 1,
                       DictSet(result, fields[i].name, YamlEntry(fields[i], for_docs)))

_generate_yaml_for_model(model, for_docs) ==
    YamlLoop(model.fields, for_docs, 1, EmptyDict)

-----------------------------------------------------------------------------
(* Flat (.env) projector                                                   *)

SECRET == VStr(<<"<", "S", "E", "C", "R", "E", "T", ">">>)
JsonSample == VStr(<<"{", "\"", "s", "a", "m", "p", "l", "e", "\"", ":", " ",
                     "\"", "v", "a", "l", "u", "e", "\"", "}">>)
JSON == <<"J", "S", "O", "N">>
Delimiter == <<"_", "_">>

\* a variant that does not upper-case the key
EnvKeyAsWritten(prefix, name) == prefix \o name

\* env_key = (prefix + name).upper()
EnvKey(prefix, name) == Upper(prefix \o name)

\* a variant that recurses without handing the prefix on
NestedPrefixOmitted(env_key) == <<>>

\* prefix=f"{env_key}__"
NestedPrefix(env_key) == env_key \o Delimiter

\* a variant that compares the suffix case-sensitively
IsJsonNameExact(name) == EndsWith(name, JSON)

\* name.upper().endswith("JSON")
IsJsonName(name) == EndsWith(Upper(name), JSON)

RECURSIVE _generate_env_for_model(_, _), EnvLoop(_, _, _, _)

\* the loop over model.model_fields.items(), from field i on
EnvLoop(fields, prefix, i, result) ==
    IF i > Len(fields) THEN result
    ELSE LET field   == fields[i]
             env_key == EnvKey(prefix, field.name)
         IN IF _is_secret_field(field)
            THEN EnvLoop(fields, prefix, i + 1, DictSet(result, env_key, SECRET))
            ELSE IF IsModelClass(field.annotation)
            THEN EnvLoop(fields, prefix, i + 1,
                         DictMerge(result,
                                   _generate_env_for_model(field.annotation,
                                                           NestedPrefix(env_key))))
            ELSE IF IsJsonName(field.name)
            THEN EnvLoop(fields, prefix, i + 1, DictSet(result, env_key, JsonSample))
            ELSE EnvLoop(fields, prefix, i + 1, result)

_generate_env_for_model(model, prefix) == EnvLoop(model.fields, prefix, 1, EmptyDict)

-----------------------------------------------------------------------------
(* Aligned template renderer                                               *)

IndentWidth == 4
CommentGap == 4

\* value, comment = val if isinstance(val, tuple) else (val, None)
ValueOf(val) == IF val.k = "tuple" THEN val.value ELSE val
CommentOf(val) == IF val.k = "tuple" THEN val.comment ELSE VNone

\* pad = " " * (indent * 4)
Pad(indent) == Spaces(indent * IndentWidth)

Row(indent, key, value, comment) ==
    [indent |-> indent, key |-> key, value |-> value, comment |-> comment]

RECURSIVE _gather_all_keys_values(_, _, _), GatherAllLoop(_, _, _, _)
\* the loop over data.items(), from entry i on
GatherAllLoop(es, indent, i, result) ==
    IF i > Len(es) THEN result
    ELSE LET value   == ValueOf(es[i].val)
             comment == CommentOf(es[i].val)
             added   == Append(result, Row(indent, es[i].key, value, comment))
         IN GatherAllLoop(es, indent, i + 1,
                          IF value.k = "dict"
                          THEN _gather_all_keys_values(value, indent + 1, added)
                          ELSE added)

_gather_all_keys_values(data, indent, result) ==
    GatherAllLoop(data.entries, indent, 1, result)

RECURSIVE _gather_comment_rows(_, _, _), GatherCommentLoop(_, _, _, _)
\* the loop over data.items(), from entry i on
GatherCommentLoop(es, indent, i, result) ==
    IF i > Len(es) THEN result
    ELSE LET value   == ValueOf(es[i].val)
             comment == CommentOf(es[i].val)
             added   == IF Truthy(comment)
                        THEN Append(result,
                                    Row(indent, Pad(indent) \o es[i].key \o <<":">>,
                                        PyStr(value), comment))
                        ELSE result
         IN GatherCommentLoop(es, indent, i + 1,
                              IF value.k = "dict"
                              THEN _gather_comment_rows(value, indent + 1, added)
                              ELSE added)

_gather_comment_rows(data, indent, result) ==
    GatherCommentLoop(data.entries, indent, 1, result)

\* len(" " * (indent * 4) + key + ":") of every row
KeyLens(all_rows) ==
    [i \in 1..Len(all_rows) |-> Len(Pad(all_rows[i].indent) \o all_rows[i].key \o <<":">>)]

\* max(len(value) for _, _, value, _ in comment_rows), 0 without such rows
MaxValueLenWithComment(comment_rows) ==
    IF Len(comment_rows) > 0
    THEN MaxOf([i \in 1..Len(comment_rows) |-> Len(comment_rows[i].value)])
    ELSE 0

\* a variant that pads every key to its own width only
KeyStrUnpadded(pad, key, max_key_len) == pad \o key \o <<":">>

\* key_str = f"{pad}{key}:".ljust(max_key_len + 1)
KeyStr(pad, key, max_key_len) == Ljust(pad \o key \o <<":">>, max_key_len + 1)

\* a variant that separates every comment from its own value only
PadValueOwn(value_str, max_value_len) == value_str \o Spaces(CommentGap)

\* value_str = value_str.ljust(max_value_len_with_comment + 4)
PadValue(value_str, max_value_len) == Ljust(value_str, max_value_len + CommentGap)

\* the line of a value that is no dict
ScalarLine(pad, key, value, comment, max_key_len, max_value_len) ==
    IF Truthy(comment)
    THEN KeyStr(pad, key, max_key_len) \o PadValue(PyStr(value), max_value_len)
             \o <<"#", " ">> \o comment.s
    ELSE KeyStr(pad, key, max_key_len) \o PyStr(value)

RECURSIVE PrintLines(_, _, _, _, _), PrintLoop(_, _, _, _, _, _, _)
\* the loop of _print over enumerate(data.items()), from entry i on
PrintLoop(es, indent, is_top_level, max_key_len, max_value_len, i, lines) ==
    IF i > Len(es) THEN lines
    ELSE LET value   == ValueOf(es[i].val)
             comment == CommentOf(es[i].val)
             spaced  == IF is_top_level /\ i > 1 THEN Append(lines, <<>>) ELSE lines
         IN PrintLoop(es, indent, is_top_level, max_key_len, max_value_len, i + 1,
                IF value.k = "dict"
                THEN Append(spaced, Pad(indent) \o es[i].key \o <<":">>)
                       \o PrintLines(value, indent + 1, FALSE, max_key_len, max_value_len)
                ELSE Append(spaced,
                            ScalarLine(Pad(indent), es[i].key, value, comment,
                                       max_key_len, max_value_len)))

\* _print(data, indent, is_top_level)
PrintLines(data, indent, is_top_level, max_key_len, max_value_len) ==
    PrintLoop(data.entries, indent, is_top_level, max_key_len, max_value_len, 1, <<>>)

Returned(lines) == [k |-> "returned", lines |-> lines, text |-> JoinText(lines, <<"\n">>)]
Raised(exc) == [k |-> "raised", exc |-> exc]

\* max() of an empty sequence raises ValueError
_dump_yaml_with_comment_alignment(data) ==
    LET all_rows     == _gather_all_keys_values(data, 0, <<>>)
        comment_rows == _gather_comment_rows(data, 0, <<>>)
    IN IF Len(all_rows) = 0 THEN Raised("ValueError")
       ELSE Returned(PrintLines(data, 0, TRUE, MaxOf(KeyLens(all_rows)),
                                MaxValueLenWithComment(comment_rows)))

-----------------------------------------------------------------------------
(* Inputs: the annotations handed to the classifier and the synthesizer    *)

MaxTypeDepth == 1

\* class Example(BaseModel): LABEL: SecretStr; hi: str = "doei"
ExampleModel ==
    TModel(<<"E","x">>,
           <<Field(<<"L","A","B","E","L">>, TSecret, Undefined, VNone),
             Field(<<"h","i">>, TStr, VStr(<<"d","o","e","i">>), VNone)>>)

BaseTypes ==
    {TStr, TInt, TFloat, TBool, TSecret, TLiteral,
     TEnum(<<>>), TEnum(<<VStr(<<"I","N","F","O">>), VStr(<<"D","E","B","U","G">>)>>),
     ExampleModel}

\* the key types of a Dict, and the second alternatives of a Union
KeyTypes == {TStr, TInt, TSecret}

RECURSIVE Types(_)
\* the annotations nested at most d levels deep; typing flattens a Union
\* inside a Union, so the alternatives of a Union are never Unions
Types(d) ==
    IF d = 0 THEN BaseTypes
    ELSE LET S  == Types(d - 1)
             NU == {t \in S : t.k # "Union"}
             P  == {p \in NU \X KeyTypes : p[1] # p[2]}
         IN S \cup {TOptional(t) : t \in NU}
              \cup {TUnion(<<TNone, t>>) : t \in NU}
              \cup {TUnion(<<t, u>>) : <<t, u>> \in P}
              \cup {TUnion(<<u, t>>) : <<t, u>> \in P}
              \cup {TDict(<<t, u>>) : <<t, u>> \in KeyTypes \X S}
              \cup {TList(<<t>>) : t \in S}
              \cup {TDict(<<>>), TList(<<>>)}

TypePool == Types(MaxTypeDepth)

-----------------------------------------------------------------------------
(* Inputs: the model classes handed to the generators                      *)

MaxDepth == 2

LeafNames == {<<"k">>, <<"K">>}
\* a class holds each field name at most once
MaxFields == Cardinality(LeafNames)
LeafTypes == {TSecret, TOptional(TSecret), TStr}
LeafFields == {Field(n, t, Undefined, VNone) : <<n, t>> \in LeafNames \X LeafTypes}

\* the sequences of at most n fields of F with pairwise different names
RECURSIVE FieldSeqs(_, _)
FieldSeqs(F, n) ==
    IF n = 0 THEN {<<>>}
    ELSE LET S == FieldSeqs(F, n - 1)
         IN S \cup {Append(fs, f) : <<fs, f>> \in
                       {p \in S \X F : \A i \in 1..Len(p[1]) : p[1][i].name # p[2].name}}

NestedNames == {<<"m">>, <<"n","J","S","O","N">>}
\* the fields declared before a nested one: a secret and a plain field
\* with a JSON name
SiblingFields == <<Field(<<"k">>, TSecret, Undefined, VNone),
                   Field(<<"a","J","s","o","n">>, TStr, Undefined, VNone)>>

RECURSIVE InstanceOf(_), InstanceAttrs(_)
\* the attributes of an instance of a model class, every field given a value
InstanceAttrs(fields) ==
    [i \in 1..Len(fields) |->
        Entry(fields[i].name,
              IF _is_secret_field(fields[i]) THEN VSecret
              ELSE IF fields[i].annotation.k = "BaseModel"
                   THEN InstanceOf(fields[i].annotation)
              ELSE IF fields[i].annotation.k = "Union"
                   THEN InstanceOf(fields[i].annotation.args[1])
              ELSE VStr(<<"v">>))]
InstanceOf(model) ==
    IF model.k = "BaseModel" THEN VInst(model.name, InstanceAttrs(model.fields))
    ELSE VStr(<<"v">>)

\* how a field refers to a nested model class: directly, directly with a
\* declared default instance, or wrapped in Optional
NestedFields(name, model) ==
    {Field(name, model, Undefined, VNone),
     Field(name, model, InstanceOf(model), VNone),
     Field(name, TOptional(model), Undefined, VNone)}

RECURSIVE Models(_)
\* the model classes nested at most d levels deep: leaf classes, and classes
\* of one nested field with the sibling fields declared before it
Models(d) ==
    IF d = 0 THEN {TModel(<<"L">>, fs) : fs \in FieldSeqs(LeafFields, MaxFields)}
    ELSE LET S == Models(d - 1)
         IN S \cup {TModel(<<"M">>, Append(SiblingFields, nf)) :
                      nf \in UNION {NestedFields(n, m) : <<n, m>> \in NestedNames \X S}}

SchemaPool == Models(MaxDepth)

-----------------------------------------------------------------------------
(* The classifier and the synthesizer applied to one annotation            *)

InitTypes ==
    /\ envFile = Unset /\ NoFolder
    /\ pc = "types"
    /\ tp \in TypePool
    /\ secretFlag = Unset /\ sample = Unset
    /\ schema = Unset /\ yamlDocs = Unset /\ yamlReal = Unset /\ envDict = Unset
    /\ doc = Unset /\ rendered = Unset
    /\ yamlFile = Unset /\ envVars = Unset /\ out = <<>> /\ outcome = Unset

\* _is_secret_field(field) for a field annotated tp
Classify ==
    /\ UNCHANGED <<loadVars, folderVars>>
    /\ pc = "types" /\ secretFlag = Unset
    /\ secretFlag' = VBool(_is_secret_field(Field(<<"x">>, tp, Undefined, VNone)))
    /\ UNCHANGED <<pc, tp, sample, schema, yamlDocs, yamlReal, envDict, doc, rendered,
                   yamlFile, envVars, out, outcome>>

\* _sample_value_for_type(tp)
Synthesize ==
    /\ UNCHANGED <<loadVars, folderVars>>
    /\ pc = "types" /\ sample = Unset
    /\ sample' = _sample_value_for_type(tp)
    /\ UNCHANGED <<pc, tp, secretFlag, schema, yamlDocs, yamlReal, envDict, doc, rendered,
                   yamlFile, envVars, out, outcome>>

NextTypes == Classify \/ Synthesize

SpecTypes == InitTypes /\ [][NextTypes]_vars

-----------------------------------------------------------------------------
(* The generators applied to one model class                               *)

Init ==
    /\ envFile = Unset /\ NoFolder
    /\ pc = "docs"
    /\ schema \in SchemaPool
    /\ tp = Unset /\ secretFlag = Unset /\ sample = Unset
    /\ yamlDocs = Unset /\ yamlReal = Unset /\ envDict = Unset
    /\ doc = Unset /\ rendered = Unset
    /\ yamlFile = Unset /\ envVars = Unset /\ out = <<>> /\ outcome = Unset

\* yaml_dict = _generate_yaml_for_model(SettingsClass, for_docs=True)
GenerateYamlDocs ==
    /\ UNCHANGED <<loadVars, folderVars>>
    /\ pc = "docs"
    /\ yamlDocs' = _generate_yaml_for_model(schema, TRUE)
    /\ pc' = "real"
    /\ UNCHANGED <<tp, secretFlag, sample, schema, yamlReal, envDict, doc, rendered,
                   yamlFile, envVars, out, outcome>>

\* yaml_dict = _generate_yaml_for_model(Settings, for_docs=False)
GenerateYamlReal ==
    /\ UNCHANGED <<loadVars, folderVars>>
    /\ pc = "real"
    /\ yamlReal' = _generate_yaml_for_model(schema, FALSE)
    /\ pc' = "env"
    /\ UNCHANGED <<tp, secretFlag, sample, schema, yamlDocs, envDict, doc, rendered,
                   yamlFile, envVars, out, outcome>>

\* env_dict = _generate_env_for_model(SettingsClass)
GenerateEnv ==
    /\ UNCHANGED <<loadVars, folderVars>>
    /\ pc = "env"
    /\ envDict' = _generate_env_for_model(schema, <<>>)
    /\ pc' = "generated"
    /\ UNCHANGED <<tp, secretFlag, sample, schema, yamlDocs, yamlReal, doc, rendered,
                   yamlFile, envVars, out, outcome>>

Next == GenerateYamlDocs \/ GenerateYamlReal \/ GenerateEnv

Spec == Init /\ [][Next]_vars

-----------------------------------------------------------------------------
(* The renderer applied to one template document                           *)

MaxDocDepth == 1

DocKeys == {<<"a">>, <<"b","c","d">>}
\* a mapping holds each key at most once
MaxDocKeys == Cardinality(DocKeys)
DocComments == {VNone, VStr(<<"T","h","e"," ","t","o","k","e","n",".">>)}

\* the sequences of at most n entries, keyed differently, with values of V
RECURSIVE EntrySeqs(_, _)
EntrySeqs(V, n) ==
    IF n = 0 THEN {<<>>}
    ELSE LET S == EntrySeqs(V, n - 1)
         IN S \cup {Append(es, Entry(key, v)) : <<es, key, v>> \in
                       {p \in S \X DocKeys \X V :
                           \A i \in 1..Len(p[1]) : p[1][i].key # p[2]}}

\* the (value, comment) entries: a value without comment, and two values of
\* different widths with one
ScalarEntries ==
    {VTuple(VInt(3299), VNone),
     VTuple(VInt(3299), VStr(<<"T","h","e"," ","t","o","k","e","n",".">>)),
     VTuple(VStr(<<"h","o","i">>), VStr(<<"T","h","e"," ","t","o","k","e","n",".">>))}

RECURSIVE Docs(_)
\* the template documents nested at most d levels deep: mappings of scalar
\* (value, comment) entries, and mappings whose last entry is a nested one
Docs(d) ==
    IF d = 0 THEN {VDict(es) : es \in EntrySeqs(ScalarEntries, MaxDocKeys)}
    ELSE LET S == Docs(d - 1)
         IN S \cup {VDict(Append(es, Entry(key, VTuple(sub, c)))) :
                      <<es, key, sub, c>> \in
                        {p \in EntrySeqs(ScalarEntries, MaxDocKeys - 1) \X DocKeys
                                  \X S \X DocComments :
                            \A i \in 1..Len(p[1]) : p[1][i].key # p[2]}}

DocPool == Docs(MaxDocDepth)

InitRender ==
    /\ envFile = Unset /\ NoFolder
    /\ pc = "render"
    /\ doc \in DocPool
    /\ rendered = Unset
    /\ tp = Unset /\ secretFlag = Unset /\ sample = Unset
    /\ schema = Unset /\ yamlDocs = Unset /\ yamlReal = Unset /\ envDict = Unset
    /\ yamlFile = Unset /\ envVars = Unset /\ out = <<>> /\ outcome = Unset

\* _dump_yaml_with_comment_alignment(doc)
Render ==
    /\ UNCHANGED <<loadVars, folderVars>>
    /\ pc = "render"
    /\ rendered' = _dump_yaml_with_comment_alignment(doc)
    /\ pc' = "rendered"
    /\ UNCHANGED <<tp, secretFlag, sample, schema, yamlDocs, yamlReal, envDict, doc,
                   yamlFile, envVars, out, outcome>>

NextRender == Render

SpecRender == InitRender /\ [][NextRender]_vars

-----------------------------------------------------------------------------
(* The repository's schema: the model classes of config.py                 *)

\* typing.Literal[...] with its values
TLiteralOf(vs) == [k |-> "Literal", values |-> vs]

\* a variant in which output_folder_choice is declared with the default None
ProgramConfigNoneDefault ==
    TModel(<<"P","r","o","g","r","a","m","C","o","n","f","i","g">>,
           <<Field(<<"o","u","t","p","u","t","_","f","o","l","d","e","r","_",
                     "c","h","o","i","c","e">>, TStr, VNone,
                   VStr(<<"C","u","s","t","o","m"," ","o","u","t","p","u","t",
                          " ","f","o","l","d","e","r","."," ","U","s","e"," ",
                          "'","D","A","T","E","'"," ","f","o","r"," ","f","D",
                          "D","-","M","M","-","Y","Y","Y","Y","_","_","H","H",
                          "-","M","M","-","S","S",".">>))>>)

ProgramConfig ==
    TModel(<<"P","r","o","g","r","a","m","C","o","n","f","i","g">>,
           <<Field(<<"o","u","t","p","u","t","_","f","o","l","d","e","r","_",
                     "c","h","o","i","c","e">>, TStr, VStr(<<
                                                                                                                                           "D",
                                                                                                                                           "A",
                                                                                                                                           "T",
                                                                                                                                           "E">>),
                   VStr(<<"C","u","s","t","o","m"," ","o","u","t","p","u","t",
                          " ","f","o","l","d","e","r","."," ","U","s","e"," ",
                          "'","D","A","T","E","'"," ","f","o","r"," ","f","D",
                          "D","-","M","M","-","Y","Y","Y","Y","_","_","H","H",
                          "-","M","M","-","S","S",".">>))>>)

LoggerConfig ==
    TModel(<<"L","o","g","g","e","r","C","o","n","f","i","g">>,
           <<Field(<<"l","e","v","e","l">>,
                   TLiteralOf(<<VStr(<<"D","E","B","U","G">>), VStr(<<"I","N",
                                                                      "F",
                                                                      "O">>), VStr(<<
                                                                                                                                                                                                                                               "W",
                                                                                                                                                                                                                                               "A",
                                                                                                                                                                                                                                               "R",
                                                                                                                                                                                                                                               "N",
                                                                                                                                                                                                                                               "I",
                                                                                                                                                                                                                                               "N",
                                                                                                                                                                                                                                               "G">>),
                                VStr(<<"E","R","R","O","R">>), VStr(<<"C","R",
                                                                      "I","T",
                                                                      "I","C",
                                                                      "A",
                                                                      "L">>)>>),
                   VStr(<<"I","N","F","O">>),
                   VStr(<<"L","o","g","g","i","n","g"," ","l","e","v","e","l",
                          "."," ","O","n","e"," ","o","f",":"," ","D","E","B",
                          "U","G",","," ","I","N","F","O",","," ","W","A","R",
                          "N","I","N","G",","," ","E","R","R","O","R",","," ",
                          "C","R","I","T","I","C","A","L",".">>)),
             Field(<<"c","o","n","f","i","g","_","f","i","l","e">>, TStr, VStr(<<
                                                                                 "c",
                                                                                 "o",
                                                                                 "n",
                                                                                 "f",
                                                                                 "i",
                                                                                 "g",
                                                                                 ".",
                                                                                 "j",
                                                                                 "s",
                                                                                 "o",
                                                                                 "n">>),
                   VStr(<<"P","a","t","h"," ","t","o"," ","t","h","e"," ","l",
                          "o","g","g","i","n","g"," ","c","o","n","f","i","g",
                          "u","r","a","t","i","o","n"," ","f","i","l","e",
                          ".">>))>>)

TestConfig ==
    TModel(<<"T","e","s","t","C","o","n","f","i","g">>, <<Field(<<"h","i">>, TStr, VStr(<<
                                                                                          "d",
                                                                                          "o",
                                                                                          "e",
                                                                                          "i">>), VNone)>>)

WalletConfig ==
    TModel(<<"W","a","l","l","e","t","C","o","n","f","i","g">>,
           <<Field(<<"L","A","B","E","L">>, TSecret, Undefined, VNone),
             Field(<<"t","o","k","e","n">>, TStr, VStr(<<"h","o","i">>),
                   VStr(<<"T","h","e"," ","t","o","k","e","n"," ","f","o","r",
                          " ","t","h","e"," ","w","a","l","l","e","t","."," ",
                          "D","e","f","a","u","l","t"," ","i","s"," ","'","h",
                          "o","i","'",".">>)),
             Field(<<"r","e","t","r","y">>, TInt, VInt(3299), VNone),
             Field(<<"t","e","s","t">>, TestConfig, Undefined, VNone)>>)

BrokerConfig ==
    TModel(<<"B","r","o","k","e","r","C","o","n","f","i","g">>,
           <<Field(<<"A","P","I","_","K","E","Y">>, TSecret, Undefined, VNone),
             Field(<<"A","P","I","_","S","E","C","R","E","T">>, TSecret, Undefined, VNone),
             Field(<<"b","a","s","e","_","u","r","l">>, TStr, Undefined, VNone),
             Field(<<"w","a","l","l","e","t","_","m","a","p">>, TDict(<<TStr, TStr>>), Undefined, VNone)>>)

Settings ==
    TModel(<<"S","e","t","t","i","n","g","s">>,
           <<Field(<<"p","r","o","g","r","a","m","_","c","o","n","f","i","g">>, ProgramConfig, Undefined, VNone),
             Field(<<"l","o","g","g","e","r","_","c","o","n","f","i","g">>, LoggerConfig, Undefined, VNone),
             Field(<<"w","a","l","l","e","t","_","c","o","n","f","i","g">>, WalletConfig, Undefined, VNone),
             Field(<<"b","r","o","k","e","r","_","c","o","n","f","i","g">>, BrokerConfig, Undefined, VNone)>>)

\* the key a field is read from: its alias when it declares one
AliasOf(cls, name) ==
    IF cls = WalletConfig.name /\ name = <<"t","o","k","e","n">> THEN <<"w",
                                                                        "a",
                                                                        "l",
                                                                        "l",
                                                                        "e",
                                                                        "t",
                                                                        "_",
                                                                        "t",
                                                                        "o",
                                                                        "k",
                                                                        "e",
                                                                        "n">> ELSE name

\* a variant in which the settings class ignores unknown keys
ExtraIgnored(model) == "ignore"

\* extra keys: forbidden by BaseSettings, which Settings does not override;
\* ignored by BaseModel
ExtraPolicy(model) == IF model.name = Settings.name THEN "forbid" ELSE "ignore"

-----------------------------------------------------------------------------
(* Settings(): the sources, their merge and the validation of the merged   *)
(* state (pydantic-settings, pydantic)                                     *)

\* str.lower() on one character
LowerChar(c) ==
    IF \E i \in DOMAIN UpperLetters : UpperLetters[i] = c
    THEN LowerLetters[CHOOSE i \in DOMAIN UpperLetters : UpperLetters[i] = c]
    ELSE c

\* str.lower()
Lower(t) == [i \in 1..Len(t) |-> LowerChar(t[i])]

\* str.startswith(prefix)
StartsWith(t, prefix) == Len(t) >= Len(prefix) /\ SubSeq(t, 1, Len(prefix)) = prefix

RECURSIVE SplitOn(_, _)
\* str.split(sep)
SplitOn(t, sep) ==
    IF \E i \in 1..(Len(t) - Len(sep) + 1) : SubSeq(t, i, i + Len(sep) - 1) = sep
    THEN LET i == CHOOSE i \in 1..(Len(t) - Len(sep) + 1) :
                     /\ SubSeq(t, i, i + Len(sep) - 1) = sep
                     /\ \A j \in 1..(i - 1) : SubSeq(t, j, j + Len(sep) - 1) # sep
         IN <<SubSeq(t, 1, i - 1)>> \o SplitOn(SubSeq(t, i + Len(sep), Len(t)), sep)
    ELSE <<t>>

RECURSIVE NestedSet(_, _, _)
\* env_var = env_var.setdefault(key, {}) along the path, then env_var[last_key] = val
NestedSet(d, path, val) ==
    IF Len(path) = 1 THEN DictSet(d, path[1], val)
    ELSE LET sub == IF HasKey(d, path[1]) /\ DictGet(d, path[1]).k = "dict"
                    THEN DictGet(d, path[1]) ELSE EmptyDict
         IN DictSet(d, path[1], NestedSet(sub, Tail(path), val))

RECURSIVE ExplodeEnvVars(_, _, _, _)
\* the variables named <field>__<key>__..., compared in lower case, as one
\* nested mapping, from variable i on
ExplodeEnvVars(field, env, i, result) ==
    IF i > Len(env.entries) THEN result
    ELSE LET name   == Lower(env.entries[i].key)
             prefix == Lower(field.name) \o Delimiter
         IN ExplodeEnvVars(field, env, i + 1,
                IF StartsWith(name, prefix)
                THEN NestedSet(result,
                               SplitOn(SubSeq(name, Len(prefix) + 1, Len(name)), Delimiter),
                               env.entries[i].val)
                ELSE result)

RECURSIVE ReplaceFieldNames(_, _)
\* the lower-case keys of an exploded mapping renamed to the fields they match
ReplaceFieldNames(model, d) ==
    VDict([i \in 1..Len(d.entries) |->
        LET key == d.entries[i].key
            val == d.entries[i].val
        IN IF \E j \in 1..Len(model.fields) : Lower(model.fields[j].name) = key
           THEN LET f == model.fields[CHOOSE j \in 1..Len(model.fields) :
                                          Lower(model.fields[j].name) = key]
                IN Entry(f.name,
                         IF IsModelClass(f.annotation) /\ val.k = "dict"
                         THEN ReplaceFieldNames(f.annotation, val) ELSE val)
           ELSE d.entries[i]])

RECURSIVE EnvLoopOverFields(_, _, _, _)
\* the environment source over the fields of the settings class, from field
\* i on: a field is supplied when some variable is named under it
EnvLoopOverFields(model, env, i, result) ==
    IF i > Len(model.fields) THEN result
    ELSE LET f        == model.fields[i]
             exploded == ExplodeEnvVars(f, env, 1, EmptyDict)
         IN EnvLoopOverFields(model, env, i + 1,
                IF Len(exploded.entries) > 0
                THEN DictSet(result, f.name,
                             IF IsModelClass(f.annotation)
                             THEN ReplaceFieldNames(f.annotation, exploded)
                             ELSE exploded)
                ELSE result)

\* env_settings(): SettingsConfigDict(env_nested_delimiter="__"), case-insensitive
EnvSettings(model, env) == EnvLoopOverFields(model, env, 1, EmptyDict)

RECURSIVE DeepUpdate(_, _)
\* deep_update(mapping, updating): the entries of updating win, mappings
\* on both sides are merged key by key
DeepUpdate(mapping, updating) ==
    IF Len(updating.entries) = 0 THEN mapping
    ELSE LET e == updating.entries[1]
             v == IF HasKey(mapping, e.key) /\ DictGet(mapping, e.key).k = "dict"
                     /\ e.val.k = "dict"
                  THEN DeepUpdate(DictGet(mapping, e.key), e.val)
                  ELSE e.val
         IN DeepUpdate(DictSet(mapping, e.key, v), VDict(Tail(updating.entries)))

\* the tuple settings_customise_sources returns
settings_customise_sources == <<"yaml", "env", "dotenv", "secrets", "init">>

\* what a source yields: config.yaml as parsed, the environment and the
\* entries of the .env file exploded; the run has no secrets directory, and
\* Settings() is called without arguments
SourceState(source, yaml, env, dotenv) ==
    CASE source = "yaml"   -> yaml
      [] source = "env"    -> EnvSettings(Settings, env)
      [] source = "dotenv" -> EnvSettings(Settings, dotenv)
      [] OTHER             -> EmptyDict

RECURSIVE BuildValuesLoop(_, _, _, _, _, _)
\* for source in sources: state = deep_update(source(), state)
BuildValuesLoop(sources, yaml, env, dotenv, i, state) ==
    IF i > Len(sources) THEN state
    ELSE BuildValuesLoop(sources, yaml, env, dotenv, i + 1,
                         DeepUpdate(SourceState(sources[i], yaml, env, dotenv), state))

\* the merged state handed to validation: an earlier source wins
BuildValues(yaml, env, dotenv) ==
    BuildValuesLoop(settings_customise_sources, yaml, env, dotenv, 1, EmptyDict)

\* one entry of a ValidationError: where, and what kind
Err(loc, type) == [loc |-> loc, type |-> type]

Valid(v) == [errors |-> {}, value |-> v]
Invalid(es) == [errors |-> es, value |-> VNone]

RECURSIVE Validate(_, _, _), ValidateModel(_, _, _)
\* a variant that, when the subtree of a nested class fails, puts the
\* instance built from the class's defaults in its place
ValidateNestedOrDefault(t, v, loc) ==
    LET result   == IF v.k = "dict" THEN ValidateModel(t, v, loc)
                    ELSE Invalid({Err(loc, "model_type")})
        defaults == ValidateModel(t, EmptyDict, loc)
    IN IF result.errors # {} /\ defaults.errors = {} THEN defaults ELSE result

\* validation of the value given for a field annotated with a model class:
\* its errors are errors of the enclosing model
ValidateNested(t, v, loc) ==
    IF v.k = "dict" THEN ValidateModel(t, v, loc)
    ELSE Invalid({Err(loc, "model_type")})

\* validation of one value against an annotation; every error is collected
Validate(t, v, loc) ==
    CASE t.k = "str" ->
            IF v.k = "str" THEN Valid(v) ELSE Invalid({Err(loc, "string_type")})
      [] t.k = "int" ->
            IF v.k = "int" THEN Valid(v) ELSE Invalid({Err(loc, "int_type")})
      [] t.k = "SecretStr" ->
            IF v.k = "str" THEN Valid(VSecret) ELSE Invalid({Err(loc, "string_type")})
      [] t.k = "Literal" ->
            IF \E i \in 1..Len(t.values) : t.values[i] = v THEN Valid(v)
            ELSE Invalid({Err(loc, "literal_error")})
      [] t.k = "Dict" ->
            IF v.k = "dict"
            THEN LET es == UNION {Validate(t.args[2], v.entries[i].val,
                                           Append(loc, v.entries[i].key)).errors
                                  : i \in 1..Len(v.entries)}
                 IN IF es = {} THEN Valid(v) ELSE Invalid(es)
            ELSE Invalid({Err(loc, "dict_type")})
      [] t.k = "BaseModel" -> ValidateNested(t, v, loc)

\* validation of a mapping against a model class: a field is read from its
\* key, takes its default when the key is absent, and is missing when it has
\* none; keys that belong to no field are errors where extra keys are forbidden
ValidateModel(model, v, loc) ==
    LET keyOf(i) == AliasOf(model.name, model.fields[i].name)
        results  == [i \in 1..Len(model.fields) |->
                        IF HasKey(v, keyOf(i))
                        THEN Validate(model.fields[i].annotation, DictGet(v, keyOf(i)),
                                      Append(loc, keyOf(i)))
                        ELSE IF model.fields[i].default # Undefined
                        THEN Valid(model.fields[i].default)
                        ELSE Invalid({Err(Append(loc, keyOf(i)), "missing")})]
        extras   == IF ExtraPolicy(model) = "forbid"
                    THEN {Err(Append(loc, v.entries[j].key), "extra_forbidden") :
                            j \in {j \in 1..Len(v.entries) :
                                     \A i \in 1..Len(model.fields) :
                                        keyOf(i) # v.entries[j].key}}
                    ELSE {}
        errors   == UNION {results[i].errors : i \in 1..Len(model.fields)} \cup extras
    IN IF errors = {}
       THEN Valid(VInst(model.name,
                        [i \in 1..Len(model.fields) |->
                            Entry(model.fields[i].name, results[i].value)]))
       ELSE Invalid(errors)

ValidationError(errors) == [k |-> "ValidationError", errors |-> errors]

\* Settings(): the merged state validated against the settings class
Construct(yaml, env, dotenv) ==
    ValidateModel(Settings, BuildValues(yaml, env, dotenv), <<>>)

-----------------------------------------------------------------------------
(* get_settings() and print_yaml_and_env()                                 *)

\* one call of print(): the text it writes
Printed(t) == VStr(t)
\* print(e): str() of the exception
PrintedException(e) == [k |-> "str_of", exc |-> e]

ErrorHeader == <<"\n","[","E","R","R","O","R","]"," ","C","o","u","l","d",
                 " ","n","o","t"," ","l","o","a","d"," ","s","e","t","t","i",
                 "n","g","s","!"," ","P","l","e","a","s","e"," ","c","h","e",
                 "c","k"," ","y","o","u","r"," ","c","o","n","f","i","g",".",
                 "y","a","m","l"," ","a","n","d"," ",".","e","n","v"," ","f",
                 "i","l","e","s",".">>
StructureHeader == <<"M","a","k","e"," ","s","u","r","e"," ","y","o","u","r",
                     " ",".","y","a","m","l"," ","a","n","d"," ",".","e","n",
                     "v"," ","a","r","e"," ","s","t","r","u","c","t","u","r",
                     "e","d"," ","l","i","k","e"," ","t","h","i","s",":","\n">>
YamlHeader == <<"\n","=","=","=","=","=","=","=","=","=","=","=","=","=",
                "=","=","=","=","=","=","=","=","=","=","="," ","c","o","n",
                "f","i","g",".","y","a","m","l"," ","s","t","r","u","c","t",
                "u","r","e"," ","=","=","=","=","=","=","=","=","=","=","=",
                "=","=","=","=","=","=","=","=","=","=","=","=","=","\n">>
EnvHeader == <<"\n","=","=","=","=","=","=","=","=","=","=","=","=","=",
               "=","=","=","=","=","=","=","=","=","=","="," ",".","e","n",
               "v"," ","s","t","r","u","c","t","u","r","e"," ","=","=","=",
               "=","=","=","=","=","=","=","=","=","=","=","=","=","=","=",
               "=","=","=","=","=","=","\n">>
DetailsHeader == <<"\n","[","E","x","c","e","p","t","i","o","n"," ","d",
                   "e","t","a","i","l","s","]",":">>

\* f"{key}={value}" for every entry of env_dict
EnvLines(env_dict) ==
    [i \in 1..Len(env_dict.entries) |->
        Printed(env_dict.entries[i].key \o <<"=">> \o PyStr(env_dict.entries[i].val))]

ReturnedSettings(inst) == [k |-> "returned", value |-> inst]
Caught(e) == [k |-> "caught", exc |-> e]

\* a variant of the handler that ends by returning defaults
ReturnDefaults(e) == ReturnedSettings(VNone)

\* the bare raise that ends the handler
Reraise(e) == Raised(e)

-----------------------------------------------------------------------------
(* Inputs: the content of config.yaml and the environment                  *)

\* the sections a config.yaml may hold; Unset stands for an absent key
ProgramSections ==
    {Unset, EmptyDict,
     VDict(<<Entry(<<"o","u","t","p","u","t","_","f","o","l","d","e","r","_",
                     "c","h","o","i","c","e">>, VNone)>>),
     VDict(<<Entry(<<"o","u","t","p","u","t","_","f","o",
                                       "l","d","e","r","_","c","h","o","i",
                                       "c","e">>, VStr(<<"A">>))>>)}
LoggerSections == {Unset, EmptyDict}
WalletSections ==
    {Unset, VDict(<<Entry(<<"t","e","s","t">>, EmptyDict)>>),
     VDict(<<Entry(<<"t","e","s","t">>, VDict(<<Entry(<<"h","i">>, VInt(5))>>))>>)}
BrokerSections ==
    {Unset,
     VDict(<<Entry(<<"w","a","l","l","e","t","_","m","a","p">>, EmptyDict)>>),
     VDict(<<Entry(<<"b","a","s","e","_","u","r","l">>, VStr(<<"A">>)), Entry(<<
                                                                                "w",
                                                                                "a",
                                                                                "l",
                                                                                "l",
                                                                                "e",
                                                                                "t",
                                                                                "_",
                                                                                "m",
                                                                                "a",
                                                                                "p">>, EmptyDict)>>)}
\* a key that is no field of Settings
OtherSections == {Unset, VStr(<<"x">>)}

YamlFiles ==
    {VDict(SelectSeq(<<Entry(<<"p","r","o","g","r","a","m","_","c","o","n",
                               "f","i","g">>, p), Entry(<<
                                                                                                                                      "l",
                                                                                                                                      "o",
                                                                                                                                      "g",
                                                                                                                                      "g",
                                                                                                                                      "e",
                                                                                                                                      "r",
                                                                                                                                      "_",
                                                                                                                                      "c",
                                                                                                                                      "o",
                                                                                                                                      "n",
                                                                                                                                      "f",
                                                                                                                                      "i",
                                                                                                                                      "g">>, l),
                       Entry(<<"w","a","l","l","e","t","_","c","o","n","f",
                               "i","g">>, w), Entry(<<
                                                                                                                                  "b",
                                                                                                                                  "r",
                                                                                                                                  "o",
                                                                                                                                  "k",
                                                                                                                                  "e",
                                                                                                                                  "r",
                                                                                                                                  "_",
                                                                                                                                  "c",
                                                                                                                                  "o",
                                                                                                                                  "n",
                                                                                                                                  "f",
                                                                                                                                  "i",
                                                                                                                                  "g">>, b),
                       Entry(<<"o","t","h","e","r","_","c","o","n","f","i",
                               "g">>, x)>>,
                     LAMBDA e : e.val # Unset)) :
        <<p, l, w, b, x>> \in ProgramSections \X LoggerSections \X WalletSections
                                \X BrokerSections \X OtherSections}

\* the variables an environment may hold
ProgramVars ==
    {<<>>, <<Entry(<<"P","R","O","G","R","A","M","_","C","O","N","F","I","G",
                     "_","_","O","U","T","P","U","T","_","F","O","L","D","E",
                     "R","_","C","H","O","I","C","E">>, VStr(<<"B">>))>>}
SecretVars ==
    {<<>>,
     <<Entry(<<"W","A","L","L","E","T","_","C","O","N","F","I","G","_","_",
               "L","A","B","E","L">>, VStr(<<"s">>)),
       Entry(<<"B","R","O","K","E","R","_","C","O","N","F","I","G","_","_",
               "A","P","I","_","K","E","Y">>, VStr(<<"s">>))>>,
     <<Entry(<<"W","A","L","L","E","T","_","C","O","N","F","I","G","_","_",
               "L","A","B","E","L">>, VStr(<<"s">>)),
       Entry(<<"B","R","O","K","E","R","_","C","O","N","F","I","G","_","_",
               "A","P","I","_","K","E","Y">>, VStr(<<"s">>)),
       Entry(<<"B","R","O","K","E","R","_","C","O","N","F","I","G","_","_",
               "A","P","I","_","S","E","C","R","E","T">>, VStr(<<"s">>))>>}
BrokerVars ==
    {<<>>, <<Entry(<<"B","R","O","K","E","R","_","C","O","N","F","I","G","_",
                     "_","B","A","S","E","_","U","R","L">>, VStr(<<"B">>))>>}

Environments ==
    {VDict(p \o s \o b) : <<p, s, b>> \in ProgramVars \X SecretVars \X BrokerVars}

RECURSIVE SafeDumpLoad(_)
\* yaml.safe_dump(yaml_dict, f) followed by the YAML source's load of the
\* file: a tuple is written as a sequence and comes back as a list
SafeDumpLoad(v) ==
    CASE v.k = "tuple" -> VList(<<SafeDumpLoad(v.value), SafeDumpLoad(v.comment)>>)
      [] v.k = "list"  -> VList([i \in 1..Len(v.items) |-> SafeDumpLoad(v.items[i])])
      [] v.k = "dict"  -> VDict([i \in 1..Len(v.entries) |->
                                   Entry(v.entries[i].key, SafeDumpLoad(v.entries[i].val))])
      [] OTHER         -> v

\* f.write(f"{k}={v}\n") for every entry of env_dict
WriteEnvFile(env_dict) ==
    [i \in 1..Len(env_dict.entries) |->
        env_dict.entries[i].key \o <<"=">> \o PyStr(env_dict.entries[i].val) \o <<"\n">>]

\* the .env file read back: a line is a name and, after its first "=", the
\* value up to the end of the line
ReadEnvFile(lines) ==
    VDict([i \in 1..Len(lines) |->
        LET line == SubSeq(lines[i], 1, Len(lines[i]) - 1)
            eq   == CHOOSE j \in 1..Len(line) :
                        line[j] = "=" /\ \A h \in 1..(j - 1) : line[h] # "="
        IN Entry(SubSeq(line, 1, eq - 1), VStr(SubSeq(line, eq + 1, Len(line))))])

\* the fixture: config.yaml and .env generated from the Settings class itself
generic_temp_config ==
    [yaml |-> SafeDumpLoad(_generate_yaml_for_model(Settings, FALSE)),
     env  |-> ReadEnvFile(WriteEnvFile(_generate_env_for_model(Settings, <<>>)))]

-----------------------------------------------------------------------------
(* get_settings() run on one config.yaml and one environment               *)

InitLoad ==
    /\ NoFolder
    /\ pc = "try"
    /\ \/ /\ yamlFile \in YamlFiles
          /\ envVars \in Environments
          /\ envFile = EmptyDict
       \/ /\ yamlFile = generic_temp_config.yaml
          /\ envVars = EmptyDict
          /\ envFile = generic_temp_config.env
    /\ schema = Settings
    /\ out = <<>> /\ outcome = Unset
    /\ tp = Unset /\ secretFlag = Unset /\ sample = Unset
    /\ yamlDocs = Unset /\ yamlReal = Unset /\ envDict = Unset
    /\ doc = Unset /\ rendered = Unset

\* try: return Settings() / except Exception as e:
TrySettings ==
    /\ UNCHANGED <<loadVars, folderVars>>
    /\ pc = "try"
    /\ LET built == Construct(yamlFile, envVars, envFile)
       IN IF built.errors = {}
          THEN outcome' = ReturnedSettings(built.value) /\ pc' = "done"
          ELSE outcome' = Caught(ValidationError(built.errors)) /\ pc' = "handler"
    /\ UNCHANGED <<tp, secretFlag, sample, schema, yamlDocs, yamlReal, envDict, doc,
                   rendered, yamlFile, envVars, out>>

\* the two prints that open the handler
PrintErrorHeader ==
    /\ UNCHANGED <<loadVars, folderVars>>
    /\ pc = "handler"
    /\ out' = out \o <<Printed(ErrorHeader), Printed(StructureHeader)>>
    /\ pc' = "yaml"
    /\ UNCHANGED <<tp, secretFlag, sample, schema, yamlDocs, yamlReal, envDict, doc,
                   rendered, yamlFile, envVars, outcome>>

\* print_yaml_and_env, first half: the template, its header and its rendering;
\* an exception of the renderer leaves get_settings in place of the caught one
PrintYamlStructure ==
    /\ UNCHANGED <<loadVars, folderVars>>
    /\ pc = "yaml"
    /\ yamlDocs' = _generate_yaml_for_model(schema, TRUE)
    /\ rendered' = _dump_yaml_with_comment_alignment(yamlDocs')
    /\ IF rendered'.k = "raised"
       THEN /\ out' = Append(out, Printed(YamlHeader))
            /\ outcome' = Raised(rendered'.exc)
            /\ pc' = "done"
       ELSE /\ out' = out \o <<Printed(YamlHeader), Printed(rendered'.text)>>
            /\ outcome' = outcome
            /\ pc' = "envs"
    /\ UNCHANGED <<tp, secretFlag, sample, schema, yamlReal, envDict, doc,
                   yamlFile, envVars>>

\* print_yaml_and_env, second half: the flat projection line by line
PrintEnvStructure ==
    /\ UNCHANGED <<loadVars, folderVars>>
    /\ pc = "envs"
    /\ envDict' = _generate_env_for_model(schema, <<>>)
    /\ out' = Append(Append(out, Printed(EnvHeader)) \o EnvLines(envDict'),
                     Printed(<<"\n", "\n">>))
    /\ pc' = "details"
    /\ UNCHANGED <<tp, secretFlag, sample, schema, yamlDocs, yamlReal, doc, rendered,
                   yamlFile, envVars, outcome>>

\* print("\n[Exception details]:"); print(e)
PrintExceptionDetails ==
    /\ UNCHANGED <<loadVars, folderVars>>
    /\ pc = "details"
    /\ out' = out \o <<Printed(DetailsHeader), PrintedException(outcome.exc)>>
    /\ pc' = "raise"
    /\ UNCHANGED <<tp, secretFlag, sample, schema, yamlDocs, yamlReal, envDict, doc,
                   rendered, yamlFile, envVars, outcome>>

\* raise
ReraiseException ==
    /\ UNCHANGED <<loadVars, folderVars>>
    /\ pc = "raise"
    /\ outcome' = Reraise(outcome.exc)
    /\ pc' = "done"
    /\ UNCHANGED <<tp, secretFlag, sample, schema, yamlDocs, yamlReal, envDict, doc,
                   rendered, yamlFile, envVars, out>>

NextLoad ==
    \/ TrySettings
    \/ PrintErrorHeader
    \/ PrintYamlStructure
    \/ PrintEnvStructure
    \/ PrintExceptionDetails
    \/ ReraiseException

SpecLoad == InitLoad /\ [][NextLoad]_vars

-----------------------------------------------------------------------------
(* ProgramConfig.output_folder and ProgramConfig.dir_tree read on one      *)
(* instance while time passes                                              *)

DATE == <<"D","A","T","E">>

\* the placeholder dir_tree replaces
OutputFolderPlaceholder == <<"{","o","u","t","p","u","t","_","f","o","l","d",
                             "e","r","}">>

\* a field of strftime printed on two digits
TwoDigits(n) == IF n < 10 THEN <<"0">> \o IntStr(n) ELSE IntStr(n)

\* now.strftime('%d-%m-%Y__%H-%M_%S'), now being second t of the fourth of
\* November 2026
Strftime(t) ==
    <<"0","4","-","1","1","-","2","0","2","6">> \o <<"_","_">> \o TwoDigits(t \div 3600) \o <<
                                                                                              "-">>
        \o TwoDigits((t % 3600) \div 60) \o <<"_">> \o TwoDigits(t % 60)

\* a variant that resolves the folder anew at every access
output_folder_uncached(choice, resolved, t) ==
    IF choice = VStr(DATE) THEN VStr(Strftime(t)) ELSE choice

\* the property output_folder read at time t: what it returns, which is
\* also what it leaves in _resolved_output_folder
output_folder(choice, resolved, t) ==
    IF resolved # VNone THEN resolved
    ELSE IF choice = VStr(DATE) THEN VStr(Strftime(t))
    ELSE choice

RECURSIVE Replace(_, _, _)
\* str.replace(old, new)
Replace(t, old, new) ==
    IF Len(t) < Len(old) THEN t
    ELSE IF SubSeq(t, 1, Len(old)) = old
         THEN new \o Replace(SubSeq(t, Len(old) + 1, Len(t)), old, new)
    ELSE <<t[1]>> \o Replace(Tail(t), old, new)

\* one read of output_folder: by whom, with which output_folder_choice, at
\* what time, and what it returned
Access(via, choice, at, value) ==
    [via |-> via, choice |-> choice, at |-> at, value |-> value]

RECURSIVE replace_placeholders(_, _, _, _, _)
\* replace_placeholders over the strings of the tree, from string i on;
\* every string reads self.output_folder
replace_placeholders(strings, i, choice, t, result) ==
    IF i > Len(strings) THEN result
    ELSE LET folder == output_folder(choice, result.resolved, t)
         IN replace_placeholders(strings, i + 1, choice, t,
                [tree     |-> Append(result.tree,
                                     Replace(strings[i], OutputFolderPlaceholder,
                                             folder.s)),
                 resolved |-> folder,
                 accesses |-> Append(result.accesses,
                                     Access("dir_tree", choice, t, folder))])

\* how many seconds pass, and how many reads are made, at most
MaxElapsed == 2
MaxAccesses == 3

\* the second of the day the run starts at: 09:05:58
StartTime == (9 * 3600) + (5 * 60) + 58

Choices == {VStr(DATE), VStr(<<"r","u","n">>)}

\* what pyproject.toml may hold at tool.myproject.dirs.tree
DirTrees ==
    {<<>>,
     <<<<"o","u","t","p","u","t","s","/","{","o","u","t","p","u","t","_","f",
         "o","l","d","e","r","}">>>>,
     <<<<"o","u","t","p","u","t","s","/","{","o","u","t","p","u","t","_","f",
         "o","l","d","e","r","}","/","l","o","g","s">>, <<
                                                                                                                                        "d",
                                                                                                                                        "a",
                                                                                                                                        "t",
                                                                                                                                        "a">>>>}

InitFolder ==
    /\ pc = "folder"
    /\ output_folder_choice \in Choices
    /\ _resolved_output_folder = VNone
    /\ now = StartTime
    /\ accesses = <<>>
    /\ tree = Unset
    /\ tp = Unset /\ secretFlag = Unset /\ sample = Unset
    /\ schema = Unset /\ yamlDocs = Unset /\ yamlReal = Unset /\ envDict = Unset
    /\ doc = Unset /\ rendered = Unset
    /\ yamlFile = Unset /\ envVars = Unset /\ envFile = Unset
    /\ out = <<>> /\ outcome = Unset

\* what the reads of the folder leave alone
restVars == <<pc, tp, secretFlag, sample, schema, yamlDocs, yamlReal, envDict, doc,
              rendered, yamlFile, envVars, out, outcome, envFile>>

\* settings.program_config.output_folder
ReadOutputFolder ==
    /\ pc = "folder" /\ Len(accesses) < MaxAccesses
    /\ _resolved_output_folder' =
          output_folder(output_folder_choice, _resolved_output_folder, now)
    /\ accesses' = Append(accesses, Access("output_folder", output_folder_choice, now,
                                           _resolved_output_folder'))
    /\ UNCHANGED <<output_folder_choice, now, tree, restVars>>

\* settings.program_config.dir_tree
ReadDirTree ==
    /\ pc = "folder"
    /\ \E strings \in DirTrees :
          /\ Len(accesses) + Len(strings) <= MaxAccesses
          /\ LET result == replace_placeholders(strings, 1, output_folder_choice, now,
                               [tree |-> <<>>, resolved |-> _resolved_output_folder,
                                accesses |-> accesses])
             IN /\ tree' = VList(result.tree)
                /\ _resolved_output_folder' = result.resolved
                /\ accesses' = result.accesses
    /\ UNCHANGED <<output_folder_choice, now, restVars>>

\* a second passes
Tick ==
    /\ pc = "folder" /\ now < StartTime + MaxElapsed
    /\ now' = now + 1
    /\ UNCHANGED <<output_folder_choice, _resolved_output_folder, accesses, tree, restVars>>

\* program_config.output_folder_choice = ...
SetChoice ==
    /\ pc = "folder"
    /\ output_folder_choice' \in Choices \ {output_folder_choice}
    /\ UNCHANGED <<_resolved_output_folder, now, accesses, tree, restVars>>

NextFolder == ReadOutputFolder \/ ReadDirTree \/ Tick \/ SetChoice

SpecFolder == InitFolder /\ [][NextFolder]_vars

-----------------------------------------------------------------------------
(* What the properties below speak of: the fields of a model class by      *)
(* their schema path, and the flat key a path is expected at.              *)

Node(path, field) == [path |-> path, field |-> field]

RECURSIVE ModelsIn(_)
\* the model classes an annotation refers to, directly or through
\* Optional / Union, List and Dict
ModelsIn(t) ==
    IF t.k = "BaseModel" THEN {t}
    ELSE IF t.k \in {"Union", "Dict", "List"}
         THEN UNION {ModelsIn(t.args[i]) : i \in 1..Len(t.args)}
    ELSE {}

RECURSIVE Nodes(_, _)
\* every field of the model with its path; a nested model class is entered
\* when the field is annotated with it directly, and also through a wrapper
\* when throughWrappers is set
Nodes(model, throughWrappers) ==
    UNION {
        LET f == model.fields[i]
            inner == IF _is_secret_field(f) THEN {}
                     ELSE IF throughWrappers THEN ModelsIn(f.annotation)
                     ELSE IF f.annotation.k = "BaseModel" THEN {f.annotation}
                     ELSE {}
        IN {Node(<<f.name>>, f)} \cup
           UNION {{Node(<<f.name>> \o n.path, n.field) : n \in Nodes(m, throughWrappers)}
                  : m \in inner}
        : i \in 1..Len(model.fields)}

\* UPPER(p1)__UPPER(p2)__...__UPPER(pn)
KeyOfPath(path) == JoinText([i \in 1..Len(path) |-> Upper(path[i])], <<"_", "_">>)

\* the name ends with the token JSON, compared case-insensitively
EndsWithJsonToken(name) ==
    /\ Len(name) >= 4
    /\ name[Len(name) - 3] \in {"j", "J"}
    /\ name[Len(name) - 2] \in {"s", "S"}
    /\ name[Len(name) - 1] \in {"o", "O"}
    /\ name[Len(name)] \in {"n", "N"}

IsNestedField(f) == ~_is_secret_field(f) /\ f.annotation.k = "BaseModel"

\* the fields that own an entry of the flat projection
Projected(n) ==
    \/ _is_secret_field(n.field)
    \/ ~IsNestedField(n.field) /\ EndsWithJsonToken(n.field.name)

SecretMarker == VStr(<<"<", "S", "E", "C", "R", "E", "T", ">">>)
JsonObjectText == VStr(<<"{", "\"", "s", "a", "m", "p", "l", "e", "\"", ":", " ",
                         "\"", "v", "a", "l", "u", "e", "\"", "}">>)

RECURSIVE TemplateHas(_, _)
\* the template holds something at the path: a key of a mapping, or an
\* attribute of a default instance
TemplateHas(v, path) ==
    CASE v.k = "tuple" -> TemplateHas(v.value, path)
      [] v.k = "list"  -> \E i \in 1..Len(v.items) : TemplateHas(v.items[i], path)
      [] v.k = "dict"  ->
            \E i \in 1..Len(v.entries) :
                /\ v.entries[i].key = path[1]
                /\ Len(path) = 1 \/ TemplateHas(v.entries[i].val, Tail(path))
      [] v.k = "inst"  ->
            \E i \in 1..Len(v.attrs) :
                /\ v.attrs[i].key = path[1]
                /\ Len(path) = 1 \/ TemplateHas(v.attrs[i].val, Tail(path))
      [] OTHER -> FALSE

-----------------------------------------------------------------------------
(* What the properties of the loader speak of                              *)

\* how the run ended in failure, and with which errors
LoadFailed == outcome.k \in {"caught", "raised"}
TopLevel(type) ==
    {e.loc[1] : e \in {e \in outcome.exc.errors : e.type = type /\ Len(e.loc) = 1}}

SchemaKeys == {Settings.fields[i].name : i \in 1..Len(Settings.fields)}
DocumentKeys == {yamlFile.entries[i].key : i \in 1..Len(yamlFile.entries)}
\* the top-level fields some environment variable is named under
EnvironmentKeys ==
    {k \in SchemaKeys :
        \E j \in 1..Len(envVars.entries) :
            StartsWith(Lower(envVars.entries[j].key), Lower(k) \o <<"_", "_">>)}

RECURSIVE HasPath(_, _), ValueAt(_, _)
\* the document holds a value at the path
HasPath(d, path) ==
    /\ d.k = "dict" /\ HasKey(d, path[1])
    /\ Len(path) = 1 \/ HasPath(DictGet(d, path[1]), Tail(path))
\* the value at a path of a document or of a Settings instance
ValueAt(v, path) ==
    LET es   == IF v.k = "inst" THEN v.attrs ELSE v.entries
        next == es[CHOOSE i \in 1..Len(es) : es[i].key = path[1]].val
    IN IF Len(path) = 1 THEN next ELSE ValueAt(next, Tail(path))

\* the fields that hold a plain value: neither secret nor a nested class
PlainFields == {n \in Nodes(Settings, FALSE) :
                   ~_is_secret_field(n.field) /\ ~IsNestedField(n.field)}

-----------------------------------------------------------------------------
(* C1: whenever Settings() fails inside get_settings, the run prints the   *)
(* config.yaml structure block, then the .env structure block, then the    *)
(* text of the error, and ends by raising that same error to the caller;   *)
(* on that path it never returns a Settings instance, and what it raises   *)
(* is not an exception of the template code.                               *)
C1_FailureReported ==
    (outcome.k = "returned" \/ pc = "done") =>
        LET built == Construct(yamlFile, envVars, envFile)
            error == ValidationError(built.errors)
        IN built.errors # {} =>
              /\ outcome.k # "returned"
              /\ pc = "done" =>
                    /\ outcome = Raised(error)
                    /\ \E y, e1, e3 \in 1..Len(out) :
                          /\ y < e1 /\ e1 < e3 /\ e3 < Len(out)
                          /\ out[y].k = "str"
                          /\ StartsWith(out[y].s, <<"p","r","o","g","r","a","m",
                                                    "_","c","o","n","f","i","g",
                                                    ":">>)
                          /\ out[e1] = VStr(<<"W","A","L","L","E","T","_","C","O",
                                              "N","F","I","G","_","_","L","A","B",
                                              "E","L","=","<","S","E","C","R","E",
                                              "T",">">>)
                          /\ out[e3] = VStr(<<"B","R","O","K","E","R","_","C","O",
                                              "N","F","I","G","_","_","A","P","I",
                                              "_","S","E","C","R","E","T","=","<",
                                              "S","E","C","R","E","T",">">>)
                          /\ out[Len(out)] = [k |-> "str_of", exc |-> error]
                          /\ \A i \in 1..(Len(out) - 1) : out[i].k = "str"

\* a failed load that has run to its end
C1_Witness ==
    /\ pc = "done" /\ outcome.k = "raised"
    /\ Construct(yamlFile, envVars, envFile).errors # {}
    /\ Len(out) > 0 /\ out[Len(out)].k = "str_of"

-----------------------------------------------------------------------------
(* C2: in the Settings instance a successful load returns, every plain     *)
(* field takes the value of the environment when the environment names     *)
(* it, else the value of config.yaml when the document holds it, else the  *)
(* declared default.                                                       *)
C2_EnvOverDocOverDefault ==
    pc = "done" /\ outcome.k = "returned" =>
        \A n \in PlainFields :
            ValueAt(outcome.value, n.path) =
                IF HasKey(envVars, KeyOfPath(n.path))
                THEN DictGet(envVars, KeyOfPath(n.path))
                ELSE IF HasPath(yamlFile, n.path) THEN ValueAt(yamlFile, n.path)
                ELSE n.field.default

-----------------------------------------------------------------------------
-----------------------------------------------------------------------------
(* C4: every field the classifier calls secret, at every nesting depth     *)
(* and also inside nested classes reached through Optional or with a       *)
(* declared default, is in the flat projection at its own flattened key    *)
(* with the value "<SECRET>" and is nowhere in the hierarchical template.  *)
C4_SecrecyPropagation ==
    pc = "generated" =>
        \A n \in Nodes(schema, TRUE) :
            _is_secret_field(n.field) =>
                /\ HasKey(envDict, KeyOfPath(n.path))
                /\ DictGet(envDict, KeyOfPath(n.path)) = SecretMarker
                /\ ~TemplateHas(yamlDocs, n.path)

-----------------------------------------------------------------------------
(* C5: _is_secret_field is true exactly when the annotation is SecretStr   *)
(* itself or an Optional / Union with SecretStr among its alternatives;    *)
(* false for a Dict or List of SecretStr and for a nested class.           *)
C5_SecretIffDirectOrUnion ==
    secretFlag # Unset =>
        secretFlag.b = (\/ tp = TSecret
                        \/ /\ tp.k = "Union"
                           /\ \E i \in 1..Len(tp.args) : tp.args[i] = TSecret)

-----------------------------------------------------------------------------
(* C6: every key of the flat projection is UPPER(p1)__...__UPPER(pn) of a  *)
(* projected field's path; a secret field reached through nested-class     *)
(* fields has an entry at that key, holding "<SECRET>" unless a non-secret *)
(* projected field shares the key; a nested-class field has no entry of    *)
(* its own.                                                                *)
C6_FlatKeys ==
    pc = "generated" =>
        LET N == Nodes(schema, FALSE) IN
        /\ \A i \in 1..Len(envDict.entries) :
              \E n \in N : Projected(n) /\ KeyOfPath(n.path) = envDict.entries[i].key
        /\ \A n \in N :
              /\ _is_secret_field(n.field) =>
                    /\ HasKey(envDict, KeyOfPath(n.path))
                    /\ (\A m \in N : Projected(m) /\ KeyOfPath(m.path) = KeyOfPath(n.path)
                                        => _is_secret_field(m.field))
                         => DictGet(envDict, KeyOfPath(n.path)) = SecretMarker
              /\ IsNestedField(n.field) /\ HasKey(envDict, KeyOfPath(n.path)) =>
                    \E m \in N : /\ m.path # n.path /\ Projected(m)
                                 /\ KeyOfPath(m.path) = KeyOfPath(n.path)

\* a secret three levels down is projected at its own key
C6_Witness ==
    /\ pc = "generated"
    /\ \E n \in Nodes(schema, FALSE) :
          /\ Len(n.path) = 3 /\ _is_secret_field(n.field)
          /\ n.path[3] = <<"k">>
          /\ HasKey(envDict, KeyOfPath(n.path))
          /\ DictGet(envDict, KeyOfPath(n.path)) = SecretMarker
          /\ ~HasKey(envDict, KeyOfPath(SubSeq(n.path, 1, 2)))

-----------------------------------------------------------------------------
(* C7: a field that is neither secret nor a nested class has an entry in   *)
(* the flat projection exactly when its name ends with JSON, compared      *)
(* case-insensitively, and the entry is the JSON-object sample (unless a   *)
(* secret field shares the key); the projection holds nothing but          *)
(* "<SECRET>" and JSON-sample values.                                      *)
C7_JsonEntries ==
    pc = "generated" =>
        LET N == Nodes(schema, FALSE) IN
        /\ \A i \in 1..Len(envDict.entries) :
              envDict.entries[i].val \in {SecretMarker, JsonObjectText}
        /\ \A n \in N :
              ~_is_secret_field(n.field) /\ ~IsNestedField(n.field) =>
                 IF EndsWithJsonToken(n.field.name)
                 THEN /\ HasKey(envDict, KeyOfPath(n.path))
                      /\ (\A m \in N : KeyOfPath(m.path) = KeyOfPath(n.path)
                                          => ~_is_secret_field(m.field))
                           => DictGet(envDict, KeyOfPath(n.path)) = JsonObjectText
                 ELSE HasKey(envDict, KeyOfPath(n.path)) =>
                         \E m \in N : /\ m.path # n.path /\ Projected(m)
                                      /\ KeyOfPath(m.path) = KeyOfPath(n.path)

\* one class with a JSON-named plain field, projected, next to a plain
\* field that is left out
C7_Witness ==
    /\ pc = "generated"
    /\ \E n, m \in Nodes(schema, FALSE) :
          /\ n.field.annotation = TStr /\ EndsWithJsonToken(n.field.name)
          /\ DictGet(envDict, KeyOfPath(n.path)) = JsonObjectText
          /\ m.field.annotation = TStr /\ ~EndsWithJsonToken(m.field.name)
          /\ ~HasKey(envDict, KeyOfPath(m.path))

-----------------------------------------------------------------------------
(* C8, as stated: for Dict[str, str] the synthesizer returns exactly the   *)
(* literal {"str": "str"}; for List[int] it returns [0]; a List yields a   *)
(* one-element list of the synthesized item and any other Dict a           *)
(* one-entry mapping.                                                      *)
SampleShape ==
    /\ tp = TList(<<TInt>>) => sample = VList(<<VInt(0)>>)
    /\ tp.k = "List" =>
          /\ sample.k = "list" /\ Len(sample.items) = 1
          /\ Len(tp.args) = 1 => sample.items[1] = _sample_value_for_type(tp.args[1])
    /\ tp.k = "Dict" /\ tp.args # <<>> /\ tp.args # <<TStr, TStr>> =>
          /\ sample.k = "dict" /\ Len(sample.entries) = 1
          /\ sample.entries[1].val = _sample_value_for_type(tp.args[2])

-----------------------------------------------------------------------------
(* What the alignment properties read off a rendered line                  *)

\* the column of the first occurrence of ch in the line, 0 when there is none
FirstIndex(line, ch) ==
    IF \E i \in 1..Len(line) : line[i] = ch
    THEN CHOOSE i \in 1..Len(line) :
            line[i] = ch /\ \A j \in 1..(i - 1) : line[j] # ch
    ELSE 0

\* the number of spaces the line starts with
LeadingSpaces(line) ==
    IF \A i \in 1..Len(line) : line[i] = " " THEN Len(line)
    ELSE (CHOOSE i \in 1..Len(line) :
             line[i] # " " /\ \A j \in 1..(i - 1) : line[j] = " ") - 1

ColonCol(line) == FirstIndex(line, ":")
CommentCol(line) == FirstIndex(line, "#")

\* the column where the value starts: the first non-space after the ':',
\* 0 on a line that ends with its ':'
ValueCol(line) ==
    LET c == ColonCol(line) IN
    IF c = 0 \/ \A i \in (c + 1)..Len(line) : line[i] = " " THEN 0
    ELSE CHOOSE i \in (c + 1)..Len(line) :
            line[i] # " " /\ \A j \in (c + 1)..(i - 1) : line[j] = " "

\* lines i < j are keys of one mapping: equally indented, with nothing
\* less indented between them
SameGroup(lines, i, j) ==
    /\ i < j /\ lines[i] # <<>> /\ lines[j] # <<>>
    /\ LeadingSpaces(lines[i]) = LeadingSpaces(lines[j])
    /\ \A m \in i..j : lines[m] = <<>> \/ LeadingSpaces(lines[m]) >= LeadingSpaces(lines[i])

CommentsAligned(lines) ==
    \A i, j \in 1..Len(lines) :
        CommentCol(lines[i]) # 0 /\ CommentCol(lines[j]) # 0 =>
            CommentCol(lines[i]) = CommentCol(lines[j])

-----------------------------------------------------------------------------
(* C9, as stated: in the rendered text the ':' of every line of a group    *)
(* of sibling keys is at the same column, and every inline '# comment' of  *)
(* the document starts at the same column.                                 *)
C9_ColonsAligned ==
    pc = "rendered" /\ rendered.k = "returned" =>
        /\ \A i, j \in 1..Len(rendered.lines) :
              SameGroup(rendered.lines, i, j) =>
                  ColonCol(rendered.lines[i]) = ColonCol(rendered.lines[j])
        /\ CommentsAligned(rendered.lines)

(* C9, amended: the ':' directly follows its key; the value of every line  *)
(* that has one starts at the same column in the whole document, and       *)
(* every inline '# comment' of the document starts at the same column.     *)
C9_ValuesAligned ==
    pc = "rendered" /\ rendered.k = "returned" =>
        /\ \A i, j \in 1..Len(rendered.lines) :
              ValueCol(rendered.lines[i]) # 0 /\ ValueCol(rendered.lines[j]) # 0 =>
                  ValueCol(rendered.lines[i]) = ValueCol(rendered.lines[j])
        /\ \A i \in 1..Len(rendered.lines) :
              rendered.lines[i] # <<>> =>
                  /\ ColonCol(rendered.lines[i]) > LeadingSpaces(rendered.lines[i]) + 1
                  /\ \A m \in 1..(ColonCol(rendered.lines[i]) - 1) :
                        m > LeadingSpaces(rendered.lines[i]) => rendered.lines[i][m] # " "
        /\ CommentsAligned(rendered.lines)

\* two commented sibling keys of different lengths below a nested
\* mapping's header
C9_Witness ==
    /\ pc = "rendered" /\ rendered.k = "returned"
    /\ \E i, j \in 1..Len(rendered.lines) :
          /\ SameGroup(rendered.lines, i, j)
          /\ LeadingSpaces(rendered.lines[i]) = IndentWidth
          /\ ColonCol(rendered.lines[i]) # ColonCol(rendered.lines[j])
          /\ CommentCol(rendered.lines[i]) # 0
          /\ CommentCol(rendered.lines[i]) = CommentCol(rendered.lines[j])
          /\ ValueCol(rendered.lines[i]) = ValueCol(rendered.lines[j])

-----------------------------------------------------------------------------
(* C10: the renderer returns text, and raises nothing, for every template  *)
(* document: the empty one, one without comments, a nested one.            *)
C10_NeverRaises ==
    pc = "rendered" => rendered.k = "returned"

-----------------------------------------------------------------------------
RECURSIVE HoldsNone(_)
\* a loaded value in which some field, at some depth, is None
HoldsNone(v) ==
    CASE v.k = "none" -> TRUE
      [] v.k = "inst" -> \E i \in 1..Len(v.attrs) : HoldsNone(v.attrs[i].val)
      [] v.k = "dict" -> \E i \in 1..Len(v.entries) : HoldsNone(v.entries[i].val)
      [] v.k = "list" -> \E i \in 1..Len(v.items) : HoldsNone(v.items[i])
      [] OTHER        -> FALSE

\* get_settings is run on the files the fixture generates from Settings
OnGeneratedFiles ==
    /\ yamlFile = generic_temp_config.yaml
    /\ envFile = generic_temp_config.env
    /\ envVars = EmptyDict

(* C11: with config.yaml holding the template synthesized from the schema  *)
(* (for_docs=False, secrets stripped) and .env holding the flat projection *)
(* of the schema, get_settings returns a Settings instance, and no field   *)
(* of that instance is None.                                               *)
C11_RoundTripLoads ==
    (pc = "done" /\ OnGeneratedFiles)
        => outcome.k = "returned" /\ ~HoldsNone(outcome.value)

-----------------------------------------------------------------------------
\* the merged state this run hands to validation
Merged == BuildValues(yamlFile, envVars, envFile)

\* the fields of Settings annotated with a model class, at every depth
NestedNodes == {n \in Nodes(Settings, FALSE) : IsNestedField(n.field)}

\* the class can be constructed from its defaults alone, and what that gives
DefaultConstructible(model) == ValidateModel(model, EmptyDict, <<>>).errors = {}
DefaultInstance(model) == ValidateModel(model, EmptyDict, <<>>).value

\* the location lies at or below the path
Below(loc, path) == Len(loc) >= Len(path) /\ SubSeq(loc, 1, Len(path)) = path

\* the merged state holds a subtree for the nested field, and the subtree
\* is no valid content of the field's class
SubtreeFails(merged, n) ==
    /\ HasPath(merged, n.path)
    /\ \/ ValueAt(merged, n.path).k # "dict"
       \/ ValidateModel(n.field.annotation, ValueAt(merged, n.path), n.path).errors # {}

\* nothing but the subtree of the nested field is wrong with the load
OnlySubtreeFails(merged, n) ==
    /\ SubtreeFails(merged, n)
    /\ \A e \in ValidateModel(Settings, merged, <<>>).errors : Below(e.loc, n.path)

-----------------------------------------------------------------------------
(* C13: in every Settings instance get_settings returns, no field at any   *)
(* depth is None, and every plain field holds either the value the merged  *)
(* sources give at its path or the default its class declares.             *)
C13_NoFieldIsNone ==
    outcome.k = "returned" =>
        /\ ~HoldsNone(outcome.value)
        /\ LET merged == Merged
           IN \A n \in PlainFields :
                 LET v == ValueAt(outcome.value, n.path)
                 IN /\ v # VNone
                    /\ \/ HasPath(merged, n.path) /\ v = ValueAt(merged, n.path)
                       \/ ~HasPath(merged, n.path) /\ v = n.field.default

\* a returned instance with one field taken from a source and another from
\* its declared default
C13_Witness ==
    /\ pc = "done" /\ outcome.k = "returned"
    /\ \E n, m \in PlainFields :
          /\ HasPath(Merged, n.path)
          /\ ValueAt(outcome.value, n.path) = ValueAt(Merged, n.path)
          /\ ~HasPath(Merged, m.path)
          /\ ValueAt(outcome.value, m.path) = m.field.default

-----------------------------------------------------------------------------
RECURSIVE HoldsTuple(_)
\* a template value in which a (value, comment) tuple occurs at some depth
HoldsTuple(v) ==
    CASE v.k = "tuple" -> TRUE
      [] v.k = "dict"  -> \E i \in 1..Len(v.entries) : HoldsTuple(v.entries[i].val)
      [] v.k = "list"  -> \E i \in 1..Len(v.items) : HoldsTuple(v.items[i])
      [] v.k = "inst"  -> \E i \in 1..Len(v.attrs) : HoldsTuple(v.attrs[i].val)
      [] OTHER         -> FALSE

(* C14: the mapping _generate_yaml_for_model returns with for_docs=False   *)
(* holds no (value, comment) tuple at any depth, the sub-mappings of       *)
(* nested-schema fields included; with for_docs=True every entry of the    *)
(* returned mapping is a (value, comment) tuple.                           *)
C14_PlainValuesOnly ==
    /\ yamlReal # Unset => ~HoldsTuple(yamlReal)
    /\ yamlDocs # Unset =>
          \A i \in 1..Len(yamlDocs.entries) : yamlDocs.entries[i].val.k = "tuple"

-----------------------------------------------------------------------------
RECURSIVE ClassesOf(_)
\* the levels of a schema: the model class and the classes the projector
\* enters from it
ClassesOf(model) ==
    {model} \cup UNION {ClassesOf(model.fields[i].annotation) :
                          i \in {i \in 1..Len(model.fields) : IsNestedField(model.fields[i])}}

FieldNames(model) == [i \in 1..Len(model.fields) |-> model.fields[i].name]

\* no two fields of one level have the same name
NamesUniquePerLevel(model) ==
    \A c \in ClassesOf(model) : \A i, j \in 1..Len(c.fields) :
        i # j => FieldNames(c)[i] # FieldNames(c)[j]

\* no two fields of one level have names that differ in case only
NamesUniqueIgnoringCase(model) ==
    \A c \in ClassesOf(model) : \A i, j \in 1..Len(c.fields) :
        i # j => Upper(FieldNames(c)[i]) # Upper(FieldNames(c)[j])

\* no field name contains the delimiter, and none begins with an underscore
\* (pydantic admits no such field)
NoDelimiterInNames(model) ==
    \A c \in ClassesOf(model) : \A i \in 1..Len(c.fields) :
        LET name == FieldNames(c)[i]
        IN /\ name[1] # "_"
           /\ \A h \in 1..(Len(name) - 1) : ~(name[h] = "_" /\ name[h + 1] = "_")

\* the schema paths that own an entry of the flat projection
ProjectedPaths(model) == {n.path : n \in {n \in Nodes(model, FALSE) : Projected(n)}}

\* the projection holds one entry for every projected path, and different
\* paths have different flat keys
OneEntryPerPath ==
    /\ Len(envDict.entries) = Cardinality(ProjectedPaths(schema))
    /\ \A p, q \in ProjectedPaths(schema) :
          p # q => /\ KeyOfPath(p) # KeyOfPath(q)
                   /\ HasKey(envDict, KeyOfPath(p)) /\ HasKey(envDict, KeyOfPath(q))

(* C15 as stated: for a schema whose field names are unique within each    *)
(* level and hold no "__", two different projected paths never have the    *)
(* same flat key, so the projection holds one entry per projected path.    *)
C15_FlatKeysUnique ==
    (pc = "generated" /\ NamesUniquePerLevel(schema) /\ NoDelimiterInNames(schema))
        => OneEntryPerPath

(* C15 as amended: the same, for a schema whose field names are unique     *)
(* within each level when compared without regard to case.                 *)
C15_FlatKeysUniqueIgnoringCase ==
    (pc = "generated" /\ NamesUniqueIgnoringCase(schema) /\ NoDelimiterInNames(schema))
        => OneEntryPerPath

\* a schema with the same field name projected at two levels, kept apart
\* by the prefix
C15_Witness ==
    /\ pc = "generated"
    /\ NamesUniqueIgnoringCase(schema) /\ NoDelimiterInNames(schema)
    /\ \E p, q \in ProjectedPaths(schema) :
          /\ Len(p) < Len(q) /\ Upper(p[Len(p)]) = Upper(q[Len(q)])
          /\ DictGet(envDict, KeyOfPath(p)) = SECRET
          /\ DictGet(envDict, KeyOfPath(q)) = SECRET

-----------------------------------------------------------------------------
\* the strings pyproject.toml may hold in its tree
TreeStrings == UNION {{strings[i] : i \in 1..Len(strings)} : strings \in DirTrees}

(* C16: on one ProgramConfig instance the output folder is resolved at     *)
(* most once. The first read of output_folder fixes it, to the timestamp   *)
(* of that moment when output_folder_choice is then "DATE" and to          *)
(* output_folder_choice itself otherwise; every later read, those dir_tree *)
(* makes included, returns that value whatever time has passed and         *)
(* whatever output_folder_choice has become.                               *)
C16_ResolvedOnce ==
    pc = "folder" =>
        /\ (accesses = <<>>) <=> (_resolved_output_folder = VNone)
        /\ accesses # <<>> =>
              LET first == accesses[1]
              IN /\ first.value = IF first.choice = VStr(DATE)
                                  THEN VStr(Strftime(first.at)) ELSE first.choice
                 /\ \A i \in 1..Len(accesses) : accesses[i].value = first.value
                 /\ _resolved_output_folder = first.value
                 /\ tree # Unset =>
                       \A i \in 1..Len(tree.items) :
                           \E t \in TreeStrings :
                               tree.items[i] =
                                   Replace(t, OutputFolderPlaceholder, first.value.s)

\* a timestamp fixed by a first read, and a read through dir_tree made
\* seconds later with output_folder_choice changed
C16_Witness ==
    /\ pc = "folder" /\ Len(accesses) >= 2
    /\ accesses[1].via = "output_folder"
    /\ accesses[1].choice = VStr(DATE)
    /\ \E j \in 2..Len(accesses) :
          /\ accesses[j].via = "dir_tree"
          /\ accesses[j].at > accesses[1].at
          /\ accesses[j].choice # accesses[1].choice
          /\ accesses[j].value = VStr(Strftime(accesses[1].at))
    /\ tree # Unset /\ Len(tree.items) > 0

=============================================================================
